---- MODULE Spec2Model ----
(***************************************************************************)
(* Model of FreecellGame (src/FreecellGame.class.js): the foundation, open *)
(* and cascade piles, the deal, move legality (isValidMove), move          *)
(* execution (executeMove) and the automatic move (attemptAutoMove).       *)
(*                                                                         *)
(* Pile indexes and card indexes are 0-based as in the source; a pile is a *)
(* sequence read bottom to top, so the card at index c of pile p is        *)
(* p[c + 1].  A JavaScript TypeError (a property read on undefined) is     *)
(* modelled by the ...Throws predicates; an operator's value is the        *)
(* function's return value in the cases where it does not throw.           *)
(***************************************************************************)
EXTENDS Integers, Sequences, FiniteSets

VARIABLES foundation, open, cascade, last, moves

vars == <<foundation, open, cascade, last, moves>>

piles == <<foundation, open, cascade>>

(***************************************************************************)
(* Bounds of the model.                                                    *)
(***************************************************************************)
\* ranks dealt: the deck holds ranks MaxRank..1 of each suit (13 in the source)
MaxRank == 3
\* numOpen given to the constructor ranges over 1..MaxOpen
MaxOpen == 2
\* numCascade given to the constructor
MaxCascade == 5
\* a call of Math.random() returns num/MaxDen, 0 <= num < MaxDen
MaxDen == 2
\* the values the calls of Math.random() return in one shuffle are the digits,
\* in base MaxDen, of a seed in 0..(MaxSeeds - 1)
MaxSeeds == 2
\* number of executeMove and attemptAutoMove calls made on a constructed game
MaxMoves == 2
\* the same, in the specification that also calls isValidMove on its own
MaxQueryMoves == 1
\* arguments given to the constructor range over -1..MaxArg, MaxPiles and MaxPiles + 1
MaxArg == 6

(***************************************************************************)
(* Cards.  The Card class is not part of the source file; a card is its    *)
(* value and suit, and undefined is what Array.pop() returns on an empty   *)
(* array and what an out-of-range index reads.                             *)
(***************************************************************************)
suits == <<"spades", "clubs", "diamonds", "hearts">>

Card(v, s) == [value |-> v, suit |-> s]

undefined == [value |-> 0, suit |-> "undefined"]

\* x instanceof Card
IsCard(x) == x # undefined

getValue(c) == c.value

isBlack(c) == c.suit \in {"spades", "clubs"}

(***************************************************************************)
(* Array helpers with the semantics of the JavaScript built-ins.           *)
(***************************************************************************)
Min2(a, b) == IF a < b THEN a ELSE b

Max2(a, b) == IF a > b THEN a ELSE b

\* relative index of Array.prototype.slice
RelIndex(k, len) == IF k < 0 THEN Max2(len + k, 0) ELSE Min2(k, len)

\* arr.slice(start)
SliceFrom(arr, start) == SubSeq(arr, RelIndex(start, Len(arr)) + 1, Len(arr))

\* arr.slice(0, end)
SliceTo(arr, end) == SubSeq(arr, 1, RelIndex(end, Len(arr)))

\* arr[k]
At(arr, k) == IF k >= 0 /\ k < Len(arr) THEN arr[k + 1] ELSE undefined

\* value returned by arr.pop()
PopValue(arr) == IF Len(arr) = 0 THEN undefined ELSE arr[Len(arr)]

\* arr after arr.pop()
PopRest(arr) == IF Len(arr) = 0 THEN arr ELSE SubSeq(arr, 1, Len(arr) - 1)

(***************************************************************************)
(* Pile references.                                                        *)
(***************************************************************************)
CascadeRef(i, c) == [type |-> "cascade", index |-> i, cardIndex |-> c]

OpenRef(i) == [type |-> "open", index |-> i, cardIndex |-> -1]

FoundationRef(i) == [type |-> "foundation", index |-> i, cardIndex |-> -1]

NoPile == [type |-> "none", index |-> -1, cardIndex |-> -1]

(***************************************************************************)
(* getDeck and shuffle.                                                    *)
(***************************************************************************)
\* the deck before shuffling: values MaxRank down to 1, the four suits each
unshuffled == [k \in 1..(4 * MaxRank) |->
                 Card(MaxRank - ((k - 1) \div 4), suits[((k - 1) % 4) + 1])]

Swap(arr, i, j) == [arr EXCEPT ![i + 1] = arr[j + 1], ![j + 1] = arr[i + 1]]

\* Fisher-Yates from index i down to 1; the k-th call of Math.random(), made
\* in the iteration with i = Len(arr) - k, returns draws[k]/den
RECURSIVE shuffle(_, _, _, _)
shuffle(arr, i, draws, den) ==
  IF i <= 0 THEN arr
  ELSE shuffle(Swap(arr, i, (draws[Len(arr) - i] * (i + 1)) \div den), i - 1, draws, den)

getDeck(draws, den) == shuffle(unshuffled, Len(unshuffled) - 1, draws, den)

\* the sequences of numerators Math.random() returns in one shuffle, one for
\* each iteration of the loop: the k-th is the k-th digit of the seed, lowest
\* first.  Every sequence of draws is that of some seed.
DrawSeqs ==
  {[k \in 1..(4 * MaxRank - 1) |-> (seed \div (MaxDen ^ (k - 1))) % MaxDen] :
     seed \in 0..(MaxSeeds - 1)}

(***************************************************************************)
(* The constructor: 4 empty foundation piles, numOpen empty open piles and *)
(* the deck dealt round-robin into numCascade cascade piles.               *)
(***************************************************************************)
\* the cards this.cascade[p] receives: deck[i] for every i with i % numCascade = p
\* the deal putting the card at deck position i on pile (i + 1) mod numCascade
RECURSIVE deal_Shifted(_, _, _, _)
deal_Shifted(deck, numCascade, p, i) ==
  IF i >= Len(deck) THEN << >>
  ELSE IF (i + 1) % numCascade = p
       THEN <<deck[i + 1]>> \o deal_Shifted(deck, numCascade, p, i + 1)
       ELSE deal_Shifted(deck, numCascade, p, i + 1)

RECURSIVE deal(_, _, _, _)
deal(deck, numCascade, p, i) ==
  IF i >= Len(deck) THEN << >>
  ELSE IF i % numCascade = p
       THEN <<deck[i + 1]>> \o deal(deck, numCascade, p, i + 1)
       ELSE deal(deck, numCascade, p, i + 1)

\* lines 6-11: the largest number of open piles and of cascade piles
MaxPiles == 52

\* the constructor testing the number of cascade piles before that of open piles
constructorError_CascadeFirst(numOpen, numCascade) ==
  IF numCascade < 1 \/ numCascade > MaxPiles
  THEN <<"Invalid number of cascade piles: ", numCascade>>
  ELSE IF numOpen < 1 \/ numOpen > MaxPiles
  THEN <<"Invalid number of open piles: ", numOpen>>
  ELSE << >>

\* lines 6-11: what the constructor throws for integer arguments, << >> when it
\* throws nothing; parseInt of an integer is that integer, never NaN
constructorError(numOpen, numCascade) ==
  IF numOpen < 1 \/ numOpen > MaxPiles
  THEN <<"Invalid number of open piles: ", numOpen>>
  ELSE IF numCascade < 1 \/ numCascade > MaxPiles
  THEN <<"Invalid number of cascade piles: ", numCascade>>
  ELSE << >>

\* lines 13-28: the piles of a new game
constructor(numOpen, numCascade, deck) ==
  [foundation |-> [k \in 0..3 |-> << >>],
   open       |-> [k \in 0..(numOpen - 1) |-> << >>],
   cascade    |-> [k \in 0..(numCascade - 1) |-> deal(deck, numCascade, k, 0)]]

getNumCascade == Cardinality(DOMAIN cascade)

getNumOpen == Cardinality(DOMAIN open)

(***************************************************************************)
(* Supporting queries.                                                     *)
(***************************************************************************)
\* is overCard stackable on top of underCard
_isStackable(underCard, overCard) ==
  IF IsCard(underCard) /\ IsCard(overCard)
  THEN getValue(underCard) - 1 = getValue(overCard)
       /\ isBlack(overCard) # isBlack(underCard)
  ELSE FALSE

\* the card getValidFoundation examines
candidate(srcPile) ==
  IF srcPile.type = "cascade"
  THEN At(cascade[srcPile.index], srcPile.cardIndex)
  ELSE IF srcPile.type = "open" THEN At(open[srcPile.index], 0)
  ELSE undefined

\* the last element of this.foundation[i]
foundationTop(i) == At(foundation[i], Len(foundation[i]) - 1)

\* loop of getValidFoundation for a cascade source, from index i
RECURSIVE scanCascade(_, _)
scanCascade(card, i) ==
  IF i >= 4 THEN -1
  ELSE IF Len(foundation[i]) = 0
       THEN (IF card.value = 1 THEN i ELSE -1)
       ELSE IF foundationTop(i).suit = card.suit
               /\ foundationTop(i).value = card.value - 1
            THEN i
            ELSE scanCascade(card, i + 1)

\* loop of getValidFoundation for an open source, from index i
RECURSIVE scanOpen(_, _)
scanOpen(card, i) ==
  IF i >= 4 THEN -1
  ELSE IF Len(foundation[i]) = 0
       THEN (IF card.value = 1 THEN i ELSE scanOpen(card, i + 1))
       ELSE IF foundationTop(i).suit = card.suit
               /\ foundationTop(i).value = card.value - 1
            THEN i
            ELSE scanOpen(card, i + 1)

\* the loop reads a property of undefined at or after index i, before it returns
RECURSIVE scanThrows(_, _, _)
scanThrows(type, card, i) ==
  IF i >= 4 THEN FALSE
  ELSE IF Len(foundation[i]) = 0
       THEN (IF ~IsCard(card) THEN TRUE
             ELSE IF card.value = 1 THEN FALSE
             ELSE IF type = "cascade" THEN FALSE
             ELSE scanThrows(type, card, i + 1))
       ELSE IF ~IsCard(foundationTop(i)) \/ ~IsCard(card) THEN TRUE
            ELSE IF foundationTop(i).suit = card.suit
                    /\ foundationTop(i).value = card.value - 1
                 THEN FALSE
                 ELSE scanThrows(type, card, i + 1)

getValidFoundationThrows(srcPile) ==
  /\ srcPile.type \in {"cascade", "open"}
  /\ scanThrows(srcPile.type, candidate(srcPile), 0)

\* index of the first valid foundation destination, or -1
getValidFoundation(srcPile) ==
  IF srcPile.type = "cascade" THEN scanCascade(candidate(srcPile), 0)
  ELSE IF srcPile.type = "open" THEN scanOpen(candidate(srcPile), 0)
  ELSE -1

\* index of the first empty open pile, or -1
getFirstAvailableOpen ==
  IF \E i \in DOMAIN open : Len(open[i]) = 0
  THEN CHOOSE i \in DOMAIN open :
         /\ Len(open[i]) = 0
         /\ \A j \in DOMAIN open : Len(open[j]) = 0 => i <= j
  ELSE -1

\* is there a valid build in the cascade pile from cardIdx to the top
RECURSIVE isBuild(_, _)
isBuild(pileIdx, cardIdx) ==
  IF cardIdx >= Len(cascade[pileIdx]) THEN TRUE
  ELSE IF cardIdx = Len(cascade[pileIdx]) - 1 THEN TRUE
  ELSE IF ~_isStackable(At(cascade[pileIdx], cardIdx), At(cascade[pileIdx], cardIdx + 1))
       THEN FALSE
       ELSE isBuild(pileIdx, cardIdx + 1)

\* numCanMove counting the destination pile among the empty cascade piles
_numCanMove_NoDiscount(destPileIndex) ==
  LET numOpen == Cardinality({i \in DOMAIN open : Len(open[i]) = 0})
      numEmpty == Cardinality({i \in DOMAIN cascade : Len(cascade[i]) = 0})
  IN  (numOpen + 1) * (2 ^ numEmpty)

_numCanMove(destPileIndex) ==
  LET numOpen == Cardinality({i \in DOMAIN open : Len(open[i]) = 0})
      numEmpty == Cardinality({i \in DOMAIN cascade : Len(cascade[i]) = 0})
      numEmptyCascade == IF Len(cascade[destPileIndex]) = 0
                         THEN numEmpty - 1 ELSE numEmpty
  IN  (numOpen + 1) * (2 ^ numEmptyCascade)

(***************************************************************************)
(* isValidMove, one operator per branch (source type, destination type).   *)
(***************************************************************************)
\* cascadeToOpen without the test that the destination pile is empty
cascadeToOpen_AnyDest(srcPile, destPile) ==
  IF getFirstAvailableOpen = -1 THEN FALSE
  ELSE IF srcPile.cardIndex # Len(cascade[srcPile.index]) - 1 THEN FALSE
  ELSE TRUE

\* cascadeToOpen without the test that cardIndex is the topmost card
cascadeToOpen_AnyCard(srcPile, destPile) ==
  IF getFirstAvailableOpen = -1 THEN FALSE
  ELSE IF Len(open[destPile.index]) # 0 THEN FALSE
  ELSE TRUE

\* lines 177-187: cascade source, open destination
cascadeToOpen(srcPile, destPile) ==
  IF getFirstAvailableOpen = -1 THEN FALSE
  ELSE IF srcPile.cardIndex # Len(cascade[srcPile.index]) - 1 THEN FALSE
  ELSE IF Len(open[destPile.index]) # 0 THEN FALSE
  ELSE TRUE

\* cascadeToCascade refusing a run as long as numCanMove (>= for >)
cascadeToCascade_OffByOne(srcPile, destPile) ==
  IF Len(cascade[destPile.index]) = 0 THEN TRUE
  ELSE IF (Len(cascade[srcPile.index]) - srcPile.cardIndex) >= _numCanMove(destPile.index)
       THEN FALSE
  ELSE IF ~isBuild(srcPile.index, srcPile.cardIndex) THEN FALSE
  ELSE IF ~_isStackable(At(cascade[destPile.index], Len(cascade[destPile.index]) - 1),
                        At(cascade[srcPile.index], srcPile.cardIndex))
       THEN FALSE
  ELSE TRUE

\* lines 188-202: cascade source, cascade destination
cascadeToCascade(srcPile, destPile) ==
  IF Len(cascade[destPile.index]) = 0 THEN TRUE
  ELSE IF (Len(cascade[srcPile.index]) - srcPile.cardIndex) > _numCanMove(destPile.index)
       THEN FALSE
  ELSE IF ~isBuild(srcPile.index, srcPile.cardIndex) THEN FALSE
  ELSE IF ~_isStackable(At(cascade[destPile.index], Len(cascade[destPile.index]) - 1),
                        At(cascade[srcPile.index], srcPile.cardIndex))
       THEN FALSE
  ELSE TRUE

\* lines 203-207 and 224-228: foundation destination
toFoundation(srcPile, destPile) ==
  IF getValidFoundation(srcPile) = -1 THEN FALSE ELSE TRUE

\* openToCascade with the arguments of _isStackable exchanged
openToCascade_Swapped(srcPile, destPile) ==
  IF Len(cascade[destPile.index]) = 0 THEN TRUE
  ELSE IF ~_isStackable(At(open[srcPile.index], 0),
                        At(cascade[destPile.index], Len(cascade[destPile.index]) - 1))
       THEN FALSE
  ELSE TRUE

\* lines 210-218: open source, cascade destination
openToCascade(srcPile, destPile) ==
  IF Len(cascade[destPile.index]) = 0 THEN TRUE
  ELSE IF ~_isStackable(At(cascade[destPile.index], Len(cascade[destPile.index]) - 1),
                        At(open[srcPile.index], 0))
       THEN FALSE
  ELSE TRUE

\* lines 219-223: open source, open destination
openToOpen(srcPile, destPile) ==
  IF Len(open[destPile.index]) # 0 THEN FALSE ELSE TRUE

\* the call ends in a TypeError instead of returning
isValidMoveThrows(srcPile, destPile) ==
  /\ srcPile # NoPile /\ destPile # NoPile
  /\ ~(srcPile.type = destPile.type /\ srcPile.index = destPile.index)
  /\ srcPile.type \in {"cascade", "open"}
  /\ destPile.type = "foundation"
  /\ getValidFoundationThrows(srcPile)

isValidMove(srcPile, destPile) ==
  IF \/ srcPile = NoPile \/ destPile = NoPile
     \/ (srcPile.type = destPile.type /\ srcPile.index = destPile.index)
     \/ srcPile.type = "foundation"
  THEN FALSE
  ELSE IF srcPile.type = "cascade"
       THEN (IF destPile.type = "open" THEN cascadeToOpen(srcPile, destPile)
             ELSE IF destPile.type = "cascade" THEN cascadeToCascade(srcPile, destPile)
             ELSE IF destPile.type = "foundation" THEN toFoundation(srcPile, destPile)
             ELSE TRUE)
  ELSE IF srcPile.type = "open"
       THEN (IF destPile.type = "cascade" THEN openToCascade(srcPile, destPile)
             ELSE IF destPile.type = "open" THEN openToOpen(srcPile, destPile)
             ELSE IF destPile.type = "foundation" THEN toFoundation(srcPile, destPile)
             ELSE TRUE)
  ELSE TRUE

(***************************************************************************)
(* executeMove: the piles after the call, as a record of the three pile    *)
(* collections.  The statements run in the order of the source.            *)
(***************************************************************************)
\* executeMove leaving the card at cardIndex on the source pile as well
executeFromCascade_KeepsCard(st, srcPile, destPile) ==
  LET src == st.cascade[srcPile.index] IN
  IF destPile.type = "open"
  THEN LET popped == [st.cascade EXCEPT ![srcPile.index] = PopRest(src)]
       IN  [st EXCEPT !.cascade = popped,
                      !.open = [st.open EXCEPT ![destPile.index] = Append(@, PopValue(src))]]
  ELSE IF destPile.type = "cascade"
  THEN LET tempVar == SliceFrom(src, srcPile.cardIndex)
           cut == [st.cascade EXCEPT ![srcPile.index] = SliceTo(src, srcPile.cardIndex + 1)]
       IN  [st EXCEPT !.cascade = [cut EXCEPT ![destPile.index] = @ \o tempVar]]
  ELSE IF destPile.type = "foundation"
  THEN LET popped == [st.cascade EXCEPT ![srcPile.index] = PopRest(src)]
       IN  [st EXCEPT !.cascade = popped,
                      !.foundation = [st.foundation EXCEPT ![destPile.index] = Append(@, PopValue(src))]]
  ELSE st

\* lines 53-65: the source is a cascade pile
executeFromCascade(st, srcPile, destPile) ==
  LET src == st.cascade[srcPile.index] IN
  IF destPile.type = "open"
  THEN LET popped == [st.cascade EXCEPT ![srcPile.index] = PopRest(src)]
       IN  [st EXCEPT !.cascade = popped,
                      !.open = [st.open EXCEPT ![destPile.index] = Append(@, PopValue(src))]]
  ELSE IF destPile.type = "cascade"
  THEN LET tempVar == SliceFrom(src, srcPile.cardIndex)
           cut == [st.cascade EXCEPT ![srcPile.index] = SliceTo(src, srcPile.cardIndex)]
       IN  [st EXCEPT !.cascade = [cut EXCEPT ![destPile.index] = @ \o tempVar]]
  ELSE IF destPile.type = "foundation"
  THEN LET popped == [st.cascade EXCEPT ![srcPile.index] = PopRest(src)]
       IN  [st EXCEPT !.cascade = popped,
                      !.foundation = [st.foundation EXCEPT ![destPile.index] = Append(@, PopValue(src))]]
  ELSE st

\* lines 66-76: the source is an open pile
executeFromOpen(st, srcPile, destPile) ==
  LET src == st.open[srcPile.index]
      popped == [st.open EXCEPT ![srcPile.index] = PopRest(src)]
  IN
  IF destPile.type = "open"
  THEN [st EXCEPT !.open = [popped EXCEPT ![destPile.index] = Append(@, PopValue(src))]]
  ELSE IF destPile.type = "cascade"
  THEN [st EXCEPT !.open = popped,
                  !.cascade = [st.cascade EXCEPT ![destPile.index] = Append(@, PopValue(src))]]
  ELSE IF destPile.type = "foundation"
  THEN [st EXCEPT !.open = popped,
                  !.foundation = [st.foundation EXCEPT ![destPile.index] = Append(@, PopValue(src))]]
  ELSE st

\* the game as a record
game == [foundation |-> foundation, open |-> open, cascade |-> cascade]

\* executeMove taking the top card off a foundation pile named as the source
executeMove_FromFoundation(srcPile, destPile) ==
  IF srcPile.type = "cascade" THEN executeFromCascade(game, srcPile, destPile)
  ELSE IF srcPile.type = "open" THEN executeFromOpen(game, srcPile, destPile)
  ELSE [game EXCEPT !.foundation = [foundation EXCEPT ![srcPile.index] = PopRest(@)]]

executeMove(srcPile, destPile) ==
  IF srcPile.type = "cascade" THEN executeFromCascade(game, srcPile, destPile)
  ELSE IF srcPile.type = "open" THEN executeFromOpen(game, srcPile, destPile)
  ELSE game

(***************************************************************************)
(* attemptAutoMove: the destination it picks, its return value and the     *)
(* piles after the call.                                                   *)
(***************************************************************************)
attemptAutoMoveThrows(srcPile) == getValidFoundationThrows(srcPile)

\* attemptAutoMove looking for an empty open pile before it looks for a
\* foundation pile
autoMoveDest_OpenFirst(srcPile) ==
  IF srcPile.type = "cascade"
  THEN (IF getFirstAvailableOpen # -1
        THEN OpenRef(getFirstAvailableOpen)
        ELSE IF getValidFoundation(srcPile) # -1
        THEN FoundationRef(getValidFoundation(srcPile))
        ELSE NoPile)
  ELSE IF srcPile.type = "open"
  THEN (IF getValidFoundation(srcPile) # -1
        THEN FoundationRef(getValidFoundation(srcPile))
        ELSE NoPile)
  ELSE NoPile

\* the destination of the move attemptAutoMove executes, NoPile when it makes none
autoMoveDest(srcPile) ==
  IF srcPile.type = "cascade"
  THEN (IF getValidFoundation(srcPile) # -1
        THEN FoundationRef(getValidFoundation(srcPile))
        ELSE IF getFirstAvailableOpen # -1
        THEN OpenRef(getFirstAvailableOpen)
        ELSE NoPile)
  ELSE IF srcPile.type = "open"
  THEN (IF getValidFoundation(srcPile) # -1
        THEN FoundationRef(getValidFoundation(srcPile))
        ELSE NoPile)
  ELSE NoPile

\* the value attemptAutoMove returns
attemptAutoMove(srcPile) == autoMoveDest(srcPile) # NoPile

\* the piles after attemptAutoMove
attemptAutoMoveEffect(srcPile) ==
  IF attemptAutoMoveThrows(srcPile) THEN game
  ELSE IF autoMoveDest(srcPile) # NoPile THEN executeMove(srcPile, autoMoveDest(srcPile))
  ELSE game

(***************************************************************************)
(* The state machine.                                                      *)
(***************************************************************************)
\* references a caller can pass as a source: a card of a cascade pile (for an
\* empty pile, the index before or after its end) or an open pile
CascadeSources ==
  UNION {{CascadeRef(i, c) : c \in (IF Len(cascade[i]) = 0 THEN {-1, 0}
                                    ELSE 0..(Len(cascade[i]) - 1))} :
         i \in DOMAIN cascade}

Sources == CascadeSources \cup {OpenRef(i) : i \in DOMAIN open}

\* references a caller can pass as a destination
Dests == {CascadeRef(i, -1) : i \in DOMAIN cascade}
           \cup {OpenRef(i) : i \in DOMAIN open}
           \cup {FoundationRef(i) : i \in 0..3}

Call(op, srcPile, destPile, result, threw) ==
  [op |-> op, src |-> srcPile, dest |-> destPile, result |-> result, threw |-> threw]

Init ==
  \E numOpen \in 1..MaxOpen, draws \in DrawSeqs :
    LET g == constructor(numOpen, MaxCascade, getDeck(draws, MaxDen)) IN
    /\ foundation = g.foundation
    /\ open = g.open
    /\ cascade = g.cascade
    /\ last = Call("constructor", NoPile, NoPile, TRUE, FALSE)
    /\ moves = 0

\* a move the caller had approved by isValidMove, then executed
ExecuteMove(srcPile, destPile) ==
  /\ moves < MaxMoves
  /\ ~isValidMoveThrows(srcPile, destPile)
  /\ isValidMove(srcPile, destPile)
  /\ LET g == executeMove(srcPile, destPile) IN
       /\ foundation' = g.foundation
       /\ open' = g.open
       /\ cascade' = g.cascade
  /\ last' = Call("executeMove", srcPile, destPile, TRUE, FALSE)
  /\ moves' = moves + 1

AttemptAutoMove(srcPile) ==
  /\ moves < MaxMoves
  /\ LET g == attemptAutoMoveEffect(srcPile) IN
       /\ foundation' = g.foundation
       /\ open' = g.open
       /\ cascade' = g.cascade
  /\ last' = IF attemptAutoMoveThrows(srcPile)
             THEN Call("attemptAutoMove", srcPile, NoPile, FALSE, TRUE)
             ELSE Call("attemptAutoMove", srcPile, autoMoveDest(srcPile),
                       attemptAutoMove(srcPile), FALSE)
  /\ moves' = moves + 1

Next ==
  \/ \E srcPile \in Sources, destPile \in Dests : ExecuteMove(srcPile, destPile)
  \/ \E srcPile \in Sources : AttemptAutoMove(srcPile)

Spec == Init /\ [][Next]_vars

(***************************************************************************)
(* The specification in which the caller also asks isValidMove about a     *)
(* move without executing it.                                              *)
(***************************************************************************)
\* a call of isValidMove; its outcome is recorded, its arguments are not
IsValidMoveCall(srcPile, destPile) ==
  /\ last' = IF isValidMoveThrows(srcPile, destPile)
             THEN Call("isValidMove", NoPile, NoPile, FALSE, TRUE)
             ELSE Call("isValidMove", NoPile, NoPile, isValidMove(srcPile, destPile), FALSE)
  /\ UNCHANGED <<foundation, open, cascade, moves>>

NextQuery ==
  \/ \E srcPile \in Sources, destPile \in Dests :
       moves < MaxQueryMoves /\ ExecuteMove(srcPile, destPile)
  \/ \E srcPile \in Sources :
       moves < MaxQueryMoves /\ AttemptAutoMove(srcPile)
  \/ \E srcPile \in Sources, destPile \in Dests : IsValidMoveCall(srcPile, destPile)

SpecQuery == Init /\ [][NextQuery]_vars

(***************************************************************************)
(* Construction: the arguments of new FreecellGame(numOpen, numCascade)    *)
(* are drawn from ArgValues, then the constructor runs.  Before it has     *)
(* run, and after it has thrown, there is no game: the pile collections    *)
(* are empty.                                                              *)
(***************************************************************************)
ArgValues == ((-1)..MaxArg) \cup {MaxPiles, MaxPiles + 1}

NewCall(op, numOpen, numCascade, draws, threw, error) ==
  [op |-> op, numOpen |-> numOpen, numCascade |-> numCascade, draws |-> draws,
   threw |-> threw, error |-> error]

InitNew ==
  \E numOpen \in ArgValues, numCascade \in ArgValues, draws \in DrawSeqs :
    /\ foundation = << >>
    /\ open = << >>
    /\ cascade = << >>
    /\ last = NewCall("new", numOpen, numCascade, draws, FALSE, << >>)
    /\ moves = 0

New ==
  /\ last.op = "new"
  /\ LET error == constructorError(last.numOpen, last.numCascade) IN
     IF error # << >>
     THEN /\ UNCHANGED <<foundation, open, cascade>>
          /\ last' = NewCall("constructor", last.numOpen, last.numCascade, last.draws, TRUE, error)
     ELSE LET g == constructor(last.numOpen, last.numCascade, getDeck(last.draws, MaxDen)) IN
          /\ foundation' = g.foundation
          /\ open' = g.open
          /\ cascade' = g.cascade
          /\ last' = NewCall("constructor", last.numOpen, last.numCascade, last.draws, FALSE, << >>)
  /\ UNCHANGED moves

NextNew == New

SpecNew == InitNew /\ [][NextNew]_vars

(***************************************************************************)
(* Vocabulary of the properties.                                           *)
(***************************************************************************)
\* the 4 * MaxRank cards of the deck
Deck == {Card(v, suits[k]) : v \in 1..MaxRank, k \in 1..4}

\* how many times x occurs in the sequence arr
Occurrences(arr, x) == Cardinality({k \in 1..Len(arr) : arr[k] = x})

\* how many times x occurs in the piles of one collection
RECURSIVE InPiles(_, _, _)
InPiles(coll, x, i) ==
  IF i \notin DOMAIN coll THEN 0
  ELSE Occurrences(coll[i], x) + InPiles(coll, x, i + 1)

TotalOccurrences(x) ==
  InPiles(foundation, x, 0) + InPiles(open, x, 0) + InPiles(cascade, x, 0)

RECURSIVE TotalLen(_, _)
TotalLen(coll, i) ==
  IF i \notin DOMAIN coll THEN 0 ELSE Len(coll[i]) + TotalLen(coll, i + 1)

\* a cascade reference names a card of its pile
InRange(srcPile) ==
  srcPile.cardIndex >= 0 /\ srcPile.cardIndex < Len(cascade[srcPile.index])

\* over is one rank below under and of the other colour
Stackable(under, over) ==
  /\ under \in Deck /\ over \in Deck
  /\ over.value = under.value - 1
  /\ (over.suit \in {"spades", "clubs"}) # (under.suit \in {"spades", "clubs"})

\* the run of pile p from card index c to the top is a build
ValidBuild(p, c) ==
  \A k \in c..(Len(p) - 2) : Stackable(At(p, k), At(p, k + 1))

\* foundation pile i accepts the card
Accepts(i, card) ==
  \/ Len(foundation[i]) = 0 /\ card.value = 1
  \/ /\ Len(foundation[i]) > 0
     /\ foundationTop(i).suit = card.suit
     /\ foundationTop(i).value = card.value - 1

\* the lowest-index foundation pile that accepts the card, or -1
FirstAccepting(card) ==
  IF \E i \in 0..3 : Accepts(i, card)
  THEN CHOOSE i \in 0..3 : Accepts(i, card) /\ \A j \in 0..(i - 1) : ~Accepts(j, card)
  ELSE -1

(***************************************************************************)
(* C1.  Card conservation: after any sequence of approved executeMove      *)
(* calls and attemptAutoMove calls, every card of the deck is in exactly   *)
(* one pile, once, and the piles hold nothing but the cards of the deck.   *)
(***************************************************************************)
C1_CardConservation ==
  /\ \A c \in Deck : TotalOccurrences(c) = 1
  /\ TotalLen(foundation, 0) + TotalLen(open, 0) + TotalLen(cascade, 0) = Cardinality(Deck)

(***************************************************************************)
(* C2.  Foundation invariant: every foundation pile is empty or, bottom to *)
(* top, a run of ranks 1, 2, 3, ... of one suit.                           *)
(***************************************************************************)
C2_FoundationRuns ==
  \A i \in 0..3 :
    \A k \in 1..Len(foundation[i]) :
      /\ foundation[i][k].value = k
      /\ foundation[i][k].suit = foundation[i][1].suit

(***************************************************************************)
(* C3.  Open-pile capacity: every open pile holds at most 1 card.          *)
(***************************************************************************)
C3_OpenCapacity == \A i \in DOMAIN open : Len(open[i]) <= 1

\* attemptAutoMove has just put a card on the last empty open pile
C3_Witness ==
  /\ last.op = "attemptAutoMove" /\ last.result
  /\ last.dest.type = "open"
  /\ Len(open[last.dest.index]) = 1
  /\ getFirstAvailableOpen = -1

(***************************************************************************)
(* C4.  getValidFoundation returns the lowest-index foundation pile that   *)
(* accepts the candidate card (empty pile and rank 1, or top card of the   *)
(* same suit one rank below) and -1 only when no pile accepts it, for a    *)
(* cascade reference as for an open pile.                                  *)
(***************************************************************************)
C4_FirstValidFoundation ==
  \A srcPile \in Sources :
    candidate(srcPile) \in Deck =>
      /\ ~getValidFoundationThrows(srcPile)
      /\ getValidFoundation(srcPile) = FirstAccepting(candidate(srcPile))

(***************************************************************************)
(* C5.  Move to foundation: when getValidFoundation returns f # -1 for a   *)
(* source (a cascade reference with an in-range cardIndex or a non-empty   *)
(* open pile), isValidMove(source, {foundation, f}) is true and after      *)
(* executeMove(source, {foundation, f}) the top card of foundation pile f  *)
(* is the candidate card.                                                  *)
(***************************************************************************)
C5_MoveToFoundation ==
  [][\A srcPile \in Sources :
       (/\ candidate(srcPile) \in Deck
        /\ ~getValidFoundationThrows(srcPile)
        /\ getValidFoundation(srcPile) # -1)
       => LET f == getValidFoundation(srcPile)
              card == candidate(srcPile)
          IN  /\ ~isValidMoveThrows(srcPile, FoundationRef(f))
              /\ isValidMove(srcPile, FoundationRef(f))
              /\ (/\ moves' = moves + 1
                  /\ last' = Call("executeMove", srcPile, FoundationRef(f), TRUE, FALSE))
                 => At(foundation'[f], Len(foundation'[f]) - 1) = card]_vars

(***************************************************************************)
(* C7.  Cascade-to-cascade legality: for a cascade source with an in-range *)
(* cardIndex and a different cascade destination, isValidMove is true when *)
(* the destination is empty; when it is not, isValidMove is true if and    *)
(* only if the run length is at most numCanMove(destIndex), the run from   *)
(* cardIndex to the top is a build, and the destination's top card is      *)
(* stackable with the card at cardIndex.                                   *)
(***************************************************************************)
C7_CascadeToCascade ==
  \A srcPile \in CascadeSources, d \in DOMAIN cascade :
    (InRange(srcPile) /\ d # srcPile.index) =>
      LET src == cascade[srcPile.index]
          dst == cascade[d]
      IN  /\ ~isValidMoveThrows(srcPile, CascadeRef(d, -1))
          /\ Len(dst) = 0 => isValidMove(srcPile, CascadeRef(d, -1))
          /\ Len(dst) # 0 =>
               (isValidMove(srcPile, CascadeRef(d, -1))
                <=> /\ Len(src) - srcPile.cardIndex <= _numCanMove(d)
                    /\ ValidBuild(src, srcPile.cardIndex)
                    /\ Stackable(dst[Len(dst)], At(src, srcPile.cardIndex)))

\* after a move, a build of two or more cards may move onto a non-empty pile
C7_Witness ==
  /\ \E srcPile \in CascadeSources, d \in DOMAIN cascade :
       /\ InRange(srcPile) /\ d # srcPile.index
       /\ Len(cascade[d]) # 0
       /\ Len(cascade[srcPile.index]) - srcPile.cardIndex >= 2
       /\ isValidMove(srcPile, CascadeRef(d, -1))
  /\ moves > 0

(***************************************************************************)
(* C8.  Cascade-to-open legality: for a cascade source and an open         *)
(* destination, isValidMove is true if and only if some open pile is       *)
(* empty, cardIndex is the index of the source pile's topmost card, and    *)
(* the destination open pile is empty.                                     *)
(***************************************************************************)
C8_CascadeToOpen ==
  \A srcPile \in CascadeSources, d \in DOMAIN open :
    /\ ~isValidMoveThrows(srcPile, OpenRef(d))
    /\ isValidMove(srcPile, OpenRef(d))
       <=> /\ \E i \in DOMAIN open : Len(open[i]) = 0
           /\ srcPile.cardIndex = Len(cascade[srcPile.index]) - 1
           /\ Len(open[d]) = 0

\* one open pile is taken and another is empty: the top card of a cascade pile
\* may go to the empty one and not to the taken one
C8_Witness ==
  \E srcPile \in CascadeSources, d, e \in DOMAIN open :
    /\ InRange(srcPile)
    /\ Len(open[d]) = 0 /\ Len(open[e]) = 1
    /\ isValidMove(srcPile, OpenRef(d))
    /\ ~isValidMove(srcPile, OpenRef(e))

(***************************************************************************)
(* C9.  Open-source legality: for an open pile holding a card, isValidMove *)
(* approves a move to a cascade pile if and only if that pile is empty or  *)
(* its top card is stackable with the card; to another open pile if and    *)
(* only if that pile is empty; to a foundation pile if and only if         *)
(* getValidFoundation finds a match for the source.                        *)
(***************************************************************************)
C9_OpenSource ==
  \A s \in DOMAIN open :
    (Len(open[s]) > 0 /\ open[s][1] \in Deck) =>
      /\ \A d \in DOMAIN cascade :
           /\ ~isValidMoveThrows(OpenRef(s), CascadeRef(d, -1))
           /\ isValidMove(OpenRef(s), CascadeRef(d, -1))
              <=> \/ Len(cascade[d]) = 0
                  \/ Stackable(At(cascade[d], Len(cascade[d]) - 1), open[s][1])
      /\ \A d \in DOMAIN open \ {s} :
           /\ ~isValidMoveThrows(OpenRef(s), OpenRef(d))
           /\ isValidMove(OpenRef(s), OpenRef(d)) <=> Len(open[d]) = 0
      /\ \A f \in 0..3 :
           /\ ~isValidMoveThrows(OpenRef(s), FoundationRef(f))
           /\ isValidMove(OpenRef(s), FoundationRef(f))
              <=> getValidFoundation(OpenRef(s)) # -1

\* an open pile holds a card that may go onto the top card of a cascade pile and
\* may not go onto that of another
C9_Witness ==
  \E s \in DOMAIN open, d, e \in DOMAIN cascade :
    /\ Len(open[s]) > 0 /\ open[s][1] \in Deck
    /\ Len(cascade[d]) # 0 /\ Len(cascade[e]) # 0
    /\ isValidMove(OpenRef(s), CascadeRef(d, -1))
    /\ ~isValidMove(OpenRef(s), CascadeRef(e, -1))

(***************************************************************************)
(* C10.  attemptAutoMove changes state only when it succeeds: a call that  *)
(* returns false leaves every foundation, open and cascade pile as it was; *)
(* and for a cascade source whose pile's top card no foundation pile       *)
(* accepts, while no open pile is empty, the call returns false and        *)
(* changes nothing.                                                        *)
(***************************************************************************)
C10_AutoMoveFrame ==
  [][/\ (/\ moves' = moves + 1
         /\ last'.op = "attemptAutoMove"
         /\ ~last'.result)
        => (foundation' = foundation /\ open' = open /\ cascade' = cascade)
     /\ \A srcPile \in CascadeSources :
          (/\ InRange(srcPile)
           /\ LET src == cascade[srcPile.index] IN
                src[Len(src)] \in Deck /\ FirstAccepting(src[Len(src)]) = -1
           /\ \A k \in DOMAIN open : Len(open[k]) # 0
           /\ moves' = moves + 1
           /\ last'.op = "attemptAutoMove"
           /\ last'.src = srcPile)
          => /\ ~last'.threw /\ ~last'.result
             /\ foundation' = foundation /\ open' = open /\ cascade' = cascade]_vars

(***************************************************************************)
(* C11.  attemptAutoMove destination order: for a cascade source, when     *)
(* getValidFoundation finds a foundation pile f, the top card of the       *)
(* source pile moves to f and no open pile changes, even when an open pile *)
(* is empty; otherwise, when an open pile is empty, the top card moves to  *)
(* the lowest-index empty open pile.  For an open source only a foundation *)
(* pile is tried: a card in an open pile with no valid foundation is not   *)
(* moved.  No call adds a card to a cascade pile.                          *)
(***************************************************************************)
C11_AutoMoveOrder ==
  [][(moves' = moves + 1 /\ last'.op = "attemptAutoMove") =>
       /\ \A i \in DOMAIN cascade : Len(cascade'[i]) <= Len(cascade[i])
       /\ \A srcPile \in CascadeSources :
            (InRange(srcPile) /\ last'.src = srcPile) =>
              LET src == cascade[srcPile.index]
                  top == src[Len(src)]
                  f == getValidFoundation(srcPile)
                  empties == {k \in DOMAIN open : Len(open[k]) = 0}
                  rest == [cascade EXCEPT ![srcPile.index] = SubSeq(src, 1, Len(src) - 1)]
              IN  /\ ~last'.threw
                  /\ f # -1 =>
                       /\ last'.result
                       /\ foundation' = [foundation EXCEPT ![f] = Append(@, top)]
                       /\ cascade' = rest
                       /\ open' = open
                  /\ (f = -1 /\ empties # {}) =>
                       LET k == CHOOSE e \in empties : \A o \in empties : e <= o IN
                       /\ last'.result
                       /\ open' = [open EXCEPT ![k] = <<top>>]
                       /\ cascade' = rest
                       /\ foundation' = foundation
       /\ \A s \in DOMAIN open :
            (/\ Len(open[s]) > 0 /\ open[s][1] \in Deck
             /\ last'.src = OpenRef(s)
             /\ FirstAccepting(open[s][1]) = -1)
            => /\ ~last'.threw /\ ~last'.result
               /\ foundation' = foundation /\ open' = open /\ cascade' = cascade]_vars

\* attemptAutoMove has moved the top card of a cascade pile to a foundation pile
\* while an open pile was empty, and that open pile is still empty
C11_Witness ==
  /\ last.op = "attemptAutoMove" /\ last.result
  /\ last.src.type = "cascade"
  /\ last.dest.type = "foundation"
  /\ Len(foundation[last.dest.index]) > 0
  /\ \E k \in DOMAIN open : Len(open[k]) = 0

(***************************************************************************)
(* C12.  executeMove, cascade to cascade: for a source pile S with an      *)
(* in-range cardIndex c and a different destination pile D, S afterwards   *)
(* holds its former cards 0 .. c-1 and D its former cards followed by S's  *)
(* former cards c .. end in their order; every other cascade pile, every   *)
(* open pile and every foundation pile is as it was.                       *)
(***************************************************************************)
C12_ExecuteCascadeToCascade ==
  /\ \A srcPile \in CascadeSources, d \in DOMAIN cascade :
       (InRange(srcPile) /\ d # srcPile.index) =>
         LET S == cascade[srcPile.index]
             c == srcPile.cardIndex
         IN  executeMove(srcPile, CascadeRef(d, -1)) =
               [foundation |-> foundation,
                open |-> open,
                cascade |-> [i \in DOMAIN cascade |->
                               IF i = srcPile.index THEN SubSeq(S, 1, c)
                               ELSE IF i = d THEN cascade[d] \o SubSeq(S, c + 1, Len(S))
                               ELSE cascade[i]]]
  /\ (last.op = "executeMove" /\ last.src.type = "cascade" /\ last.dest.type = "cascade")
     => Len(cascade[last.src.index]) = last.src.cardIndex

\* the number of cards the deal gives cascade pile i
dealtLen(i) == Cardinality({k \in 0..(4 * MaxRank - 1) : k % MaxCascade = i})

\* the first move of a game has taken the cards from cardIndex up off a cascade
\* pile, leaving those below, and put them on another cascade pile
C12_Witness ==
  /\ moves = 1
  /\ last.op = "executeMove"
  /\ last.src.type = "cascade" /\ last.dest.type = "cascade"
  /\ last.src.cardIndex >= 1
  /\ dealtLen(last.src.index) - last.src.cardIndex >= 1
  /\ Len(cascade[last.dest.index]) = dealtLen(last.dest.index) + dealtLen(last.src.index) - last.src.cardIndex

(***************************************************************************)
(* C13.  Initial deal: for every numOpen and numCascade in 1 .. 52 the     *)
(* constructed game has 4 empty foundation piles, numOpen empty open piles *)
(* and numCascade cascade piles that together hold every card of the deck  *)
(* exactly once; the card at deck position i is in cascade pile            *)
(* i mod numCascade, and the sizes of two cascade piles differ by at most  *)
(* 1.                                                                      *)
(***************************************************************************)
C13_InitialDeal ==
  (/\ last.op = "constructor"
   /\ last.numOpen \in 1..52
   /\ last.numCascade \in 1..52)
  => LET deck == getDeck(last.draws, MaxDen) IN
     /\ ~last.threw
     /\ DOMAIN foundation = 0..3
     /\ \A i \in 0..3 : foundation[i] = << >>
     /\ DOMAIN open = 0..(last.numOpen - 1)
     /\ \A i \in DOMAIN open : open[i] = << >>
     /\ DOMAIN cascade = 0..(last.numCascade - 1)
     /\ \A c \in Deck : InPiles(cascade, c, 0) = 1
     /\ TotalLen(cascade, 0) = Cardinality(Deck)
     /\ \A i \in 0..(Len(deck) - 1) :
          \E k \in 1..Len(cascade[i % last.numCascade]) :
            cascade[i % last.numCascade][k] = deck[i + 1]
     /\ \A i, j \in DOMAIN cascade : Len(cascade[i]) - Len(cascade[j]) <= 1

\* a game dealt to several cascade piles, some a card longer than others
C13_Witness ==
  /\ last.op = "constructor" /\ ~last.threw
  /\ last.numCascade > 1
  /\ \E i, j \in DOMAIN cascade :
       Len(cascade[j]) > 0 /\ Len(cascade[i]) = Len(cascade[j]) + 1

(***************************************************************************)
(* C14.  Construction validation: for integer arguments the construction   *)
(* succeeds if and only if numOpen and numCascade are both in 1 .. 52;     *)
(* otherwise it fails with an error that names numOpen when numOpen is     *)
(* invalid and numCascade when only numCascade is, and no game with piles  *)
(* comes to exist.                                                         *)
(***************************************************************************)
C14_ConstructionValidation ==
  last.op = "constructor" =>
    LET openOk == last.numOpen >= 1 /\ last.numOpen <= 52
        cascadeOk == last.numCascade >= 1 /\ last.numCascade <= 52
    IN  /\ ~last.threw <=> (openOk /\ cascadeOk)
        /\ ~last.threw => (DOMAIN foundation # {} /\ DOMAIN open # {} /\ DOMAIN cascade # {})
        /\ last.threw =>
             /\ foundation = << >> /\ open = << >> /\ cascade = << >>
             /\ ~openOk => last.error = <<"Invalid number of open piles: ", last.numOpen>>
             /\ openOk => last.error = <<"Invalid number of cascade piles: ", last.numCascade>>

\* the constructor has thrown for two invalid arguments, one too small and one
\* too large
C14_Witness ==
  /\ last.op = "constructor" /\ last.threw
  /\ last.numOpen > MaxPiles
  /\ last.numCascade < 1

\* how many piles of a collection, from index i on and leaving pile skip out,
\* are empty
RECURSIVE EmptyPiles(_, _, _)
EmptyPiles(coll, skip, i) ==
  IF i \notin DOMAIN coll THEN 0
  ELSE (IF i # skip /\ Len(coll[i]) = 0 THEN 1 ELSE 0) + EmptyPiles(coll, skip, i + 1)

RECURSIVE Pow2(_)
Pow2(n) == IF n = 0 THEN 1 ELSE 2 * Pow2(n - 1)

(***************************************************************************)
(* C15.  numCanMove: in every state and for every destination index,       *)
(* numCanMove(destIndex) is (the number of empty open piles + 1) times 2   *)
(* to the number of empty cascade piles, the destination pile not counted  *)
(* when it is empty itself.                                                *)
(***************************************************************************)
C15_NumCanMove ==
  \A d \in DOMAIN cascade :
    _numCanMove(d) = (EmptyPiles(open, -1, 0) + 1) * Pow2(EmptyPiles(cascade, d, 0))

\* an empty cascade pile and a non-empty one: twice as many cards may move to
\* the non-empty pile as to the empty one
C15_Witness ==
  \E d, e \in DOMAIN cascade :
    /\ Len(cascade[d]) = 0 /\ Len(cascade[e]) # 0
    /\ _numCanMove(e) = 2 * _numCanMove(d)
    /\ _numCanMove(d) = EmptyPiles(open, -1, 0) + 1

(***************************************************************************)
(* C16.  Only builds move as a unit: every cascade-to-cascade move that    *)
(* isValidMove approves, to an empty or a non-empty destination, relocates *)
(* a run in which each card is one rank below and of the opposite colour   *)
(* to the card beneath it, that is, isBuild(srcIndex, cardIndex) is true.  *)
(***************************************************************************)
C16_OnlyBuildsMove ==
  \A srcPile \in CascadeSources, d \in DOMAIN cascade :
    (/\ InRange(srcPile) /\ d # srcPile.index
     /\ isValidMove(srcPile, CascadeRef(d, -1)))
    => /\ ValidBuild(cascade[srcPile.index], srcPile.cardIndex)
       /\ isBuild(srcPile.index, srcPile.cardIndex)

(***************************************************************************)
(* C17.  numCanMove bounds every multi-card move: every cascade-to-cascade *)
(* move that isValidMove approves relocates at most numCanMove(destIndex)  *)
(* cards, numCanMove discounting an empty destination pile.                *)
(***************************************************************************)
C17_NumCanMoveBounds ==
  \A srcPile \in CascadeSources, d \in DOMAIN cascade :
    (/\ InRange(srcPile) /\ d # srcPile.index
     /\ isValidMove(srcPile, CascadeRef(d, -1)))
    => Len(cascade[srcPile.index]) - srcPile.cardIndex <= _numCanMove(d)

\* s is a prefix of t
IsPrefix(s, t) == Len(s) <= Len(t) /\ \A k \in 1..Len(s) : t[k] = s[k]

(***************************************************************************)
(* C18.  Foundations are write-only: isValidMove returns false for every   *)
(* move whose source is a foundation pile, executeMove with a foundation   *)
(* source changes no pile, and no executeMove or attemptAutoMove call      *)
(* takes a card off a foundation pile: the content of each foundation pile *)
(* before a call is a prefix of its content after it.                      *)
(***************************************************************************)
C18_FoundationsWriteOnly ==
  /\ [](/\ \A f \in 0..3, destPile \in Dests :
             /\ ~isValidMoveThrows(FoundationRef(f), destPile)
             /\ ~isValidMove(FoundationRef(f), destPile)
             /\ executeMove(FoundationRef(f), destPile) = game
        /\ \A srcPile \in Sources, destPile \in Dests :
             LET after == executeMove(srcPile, destPile).foundation IN
             after = foundation \/ \A i \in 0..3 : IsPrefix(foundation[i], after[i]))
  /\ [][\A i \in 0..3 : IsPrefix(foundation[i], foundation'[i])]_vars

\* a game with a card on a foundation pile in which the last call has moved a
\* card to a pile that is not a foundation pile
C18_Witness ==
  /\ moves >= 2
  /\ last.op \in {"executeMove", "attemptAutoMove"} /\ last.result
  /\ last.dest.type \in {"cascade", "open"}
  /\ \E i \in 0..3 : Len(foundation[i]) > 0

(***************************************************************************)
(* C19.  attemptAutoMove never makes a move the rules reject: for every    *)
(* cascade reference with an in-range cardIndex, topmost or not, and every *)
(* open source, when attemptAutoMove returns true the piles after it are   *)
(* those executeMove(source, dest) gives for a destination dest for which  *)
(* isValidMove(source, dest) was true before the call.                     *)
(***************************************************************************)
C19_AutoMoveIsValidMove ==
  [][\A srcPile \in Sources :
       (/\ srcPile.type = "cascade" => InRange(srcPile)
        /\ moves' = moves + 1
        /\ last'.op = "attemptAutoMove"
        /\ last'.src = srcPile
        /\ ~last'.threw /\ last'.result)
       => \E destPile \in Dests :
            /\ ~isValidMoveThrows(srcPile, destPile)
            /\ isValidMove(srcPile, destPile)
            /\ executeMove(srcPile, destPile) = game']_vars

(***************************************************************************)
(* C20.  An approved move always moves a real card: in every reachable     *)
(* state isValidMove returns a boolean, also for an empty source pile, and *)
(* when it returns true the source pile is non-empty, so that executing    *)
(* the move takes at least one card off the source pile; no move from an   *)
(* empty open pile is approved.                                            *)
(***************************************************************************)
C20_ApprovedMovesACard ==
  \A srcPile \in Sources, destPile \in Dests :
    LET src == IF srcPile.type = "cascade" THEN cascade[srcPile.index]
               ELSE open[srcPile.index]
    IN  /\ ~isValidMoveThrows(srcPile, destPile)
        /\ isValidMove(srcPile, destPile) =>
             /\ Len(src) > 0
             /\ LET g == executeMove(srcPile, destPile)
                     after == IF srcPile.type = "cascade" THEN g.cascade[srcPile.index]
                              ELSE g.open[srcPile.index]
                 IN  Len(after) < Len(src)

====
